---- MODULE Spec2Model ----
\* Songbird scene orchestration (songbird.js) and the Listener model
\* (listener.js): the scene's constructor, its five mutators, the listener's
\* rotation-matrix derivation, and the asynchronous wiring of the renderer.
\*
\* JavaScript numbers are modelled by integers.  Listener.position and
\* Listener._tempMatrix4 are Float32Array buffers: every store into them
\* rounds to single precision (Fround).  JavaScript arrays are 0-based; the
\* helpers At / Store32 keep the source's indices.
EXTENDS Integers, Sequences, FiniteSets, TLC

\* ---------------------------------------------------------------- bounds

\* Largest number of sources createSource is allowed to create.
MaxSources == 2

\* ------------------------------------------------------ single precision

\* Integers of magnitude up to 2^24 are exact in a Float32Array element.
F32Exact == 16777216

\* Spacing of the single-precision values around a, 0 <= a < 2^31: 1 up to
\* 2^24, then doubling with every further power of two (64 up to 2^30,
\* 128 from there to 2^31).
Ulp(a) ==
  IF a < F32Exact THEN 1
  ELSE IF a < 2 * F32Exact THEN 2
  ELSE IF a < 4 * F32Exact THEN 4
  ELSE IF a < 8 * F32Exact THEN 8
  ELSE IF a < 16 * F32Exact THEN 16
  ELSE IF a < 32 * F32Exact THEN 32
  ELSE IF a < 64 * F32Exact THEN 64
  ELSE 128

\* Nearest multiple of p to a >= 0, ties to the even multiple.
RoundHalfEven(a, p) ==
  LET q == a \div p
      r == a % p
  IN IF 2 * r < p THEN q * p
     ELSE IF 2 * r > p THEN (q + 1) * p
     ELSE IF q % 2 = 0 THEN q * p
     ELSE (q + 1) * p

\* The element of a one-element set (used to name a computed value once).
Only(S) == CHOOSE x \in S : TRUE

\* The single-precision value nearest to the integer n.
Round32(n) ==
  IF n >= 0 THEN RoundHalfEven(n, Ulp(n))
  ELSE 0 - RoundHalfEven(0 - n, Ulp(0 - n))

\* The value a Float32Array element holds after `element = v`.
Fround(v) == Only({ Round32(n) : n \in {v} })

\* a[k] of a 0-based JavaScript array.
At(a, k) == a[k + 1]

\* a[k] = v on a Float32Array.
Store32(a, k, v) == [a EXCEPT ![k + 1] = Fround(v)]

\* new Float32Array(n): n zeros.
Float32Array(n) == [i \in 1..n |-> 0]

\* ------------------------------------------------------------- utilities

\* An option or argument that was not supplied.
Undefined == <<>>

\* Utils.crossProduct(a, b), on 0-based 3-element arrays.
crossProduct(a, b) ==
  << At(a, 1) * At(b, 2) - At(a, 2) * At(b, 1),
     At(a, 2) * At(b, 0) - At(a, 0) * At(b, 2),
     At(a, 0) * At(b, 1) - At(a, 1) * At(b, 0) >>

\* The library's default constants whose values neither the two source
\* files nor their documentation state: Utils.DEFAULT_FORWARD,
\* Utils.DEFAULT_UP and Encoder.DEFAULT_AMBISONIC_ORDER.  They are fixed
\* for a run, and a run may have any of the candidate values below.
VARIABLE defaults

\* Candidate values: a supported ambisonic order, and perpendicular unit
\* vectors forward / up -- looking down -z, looking down +z, and looking
\* down +x with z up.
DefaultChoices ==
  { [order |-> <<1>>, forward |-> <<0, 0, 0 - 1>>, up |-> <<0, 1, 0>>],
    [order |-> <<2>>, forward |-> <<0, 0, 1>>, up |-> <<0, 1, 0>>],
    [order |-> <<3>>, forward |-> <<1, 0, 0>>, up |-> <<0, 0, 1>>] }

DEFAULT_POSITION == <<0, 0, 0>>
DEFAULT_FORWARD == defaults.forward
DEFAULT_UP == defaults.up
DEFAULT_AMBISONIC_ORDER == defaults.order
DEFAULT_DIMENSIONS == <<1, 1, 1>>
DEFAULT_MATERIALS == <<"transparent">>

\* ---------------------------------------------------------------- inputs

\* An integer that single precision cannot hold: 2^24 + 1 stores as 2^24.
BigOdd == F32Exact + 1

\* Positions (x, y, z) handed to setListenerPosition.
Positions == { <<3, 4, 5>>, <<BigOdd, 0, 0 - BigOdd>> }

\* Forward / up pairs handed to setListenerOrientation: a perpendicular, a
\* parallel and an oblique pair.
Orientations ==
  { << <<0, 0, 1>>, <<1, 0, 0>> >>,
    << <<0, 2, 0>>, <<0, 0 - 1, 0>> >>,
    << <<1, 1, 0>>, <<0, 1, 0>> >> }

\* The options object handed to `new Songbird(context, options)`.
Options(order, pos, fwd, up) ==
  [ambisonicOrder |-> order, listenerPosition |-> pos, listenerForward |-> fwd,
   listenerUp |-> up, dimensions |-> Undefined, materials |-> Undefined]

\* Constructor inputs: nothing supplied; order 1 with the default position,
\* forward and up; the supported ambisonic orders, with a listener position
\* or orientation; an unsupported order.
InitialOptions ==
  { Options(Undefined, Undefined, Undefined, Undefined),
    Options(<<1>>, Undefined, Undefined, Undefined),
    Options(<<1>>, <<1, 2, 3>>, Undefined, Undefined),
    Options(<<2>>, <<BigOdd, 0, 0>>, Undefined, <<1, 0, 0>>),
    Options(<<3>>, <<1, 2, 3>>, <<1, 0, 0>>, <<0, 0, 1>>),
    Options(<<4>>, Undefined, <<0, 1, 0>>, <<0, 1, 0>>) }

\* A Three.js Matrix4: 16 elements, column-major, translation at 12..14.
Matrix4(r, t) ==
  << r[1], r[2], r[3], 21, r[4], r[5], r[6], 22, r[7], r[8], r[9], 23,
     t[1], t[2], t[3], 1 >>

\* World matrices: one whose rotation rows are (f x u, u, f) for f = (1,1,0),
\* u = (0,1,0), and one whose elements all differ and whose translation
\* single precision cannot hold.
Matrices ==
  { Matrix4(<<0, 0, 1, 0, 1, 0, 1, 1, 0>>, <<5, 6, 7>>),
    Matrix4(<<11, 12, 13, 14, 15, 16, 17, 18, 19>>, <<BigOdd, 0 - BigOdd, 3>>) }

\* Source options (opaque to the scene) and room properties.
SourceOptions == { Undefined, <<"gain", 2>> }
RoomProperties == { << <<2, 3, 4>>, Undefined >> }

\* ----------------------------------------------------------------- state

VARIABLES
  pc,            \* how far `new Songbird(context, options)` has run
  options,       \* the constructor's options object, until it returns
  sources,       \* Songbird._sources
  room,          \* Songbird._room: what Room was told
  position,      \* Listener.position (Float32Array(3))
  tempMatrix4,   \* Listener._tempMatrix4 (Float32Array(16))
  renderer,      \* Listener._renderer: its options, the matrix it was handed
                 \* last, whether it has initialized, the matrix it applies
  initState,     \* the promise of _renderer.initialize()
  connections,   \* audio-graph connections made so far
  allocated,     \* number of Source objects constructed so far
  log,           \* the calls and writes of the handler that ran last, in order
  lastCall,      \* the handler that ran last, with its arguments
  ret,           \* what that handler returned (a source handle, or 0)
  history,       \* the createSource calls so far: handle returned, options
  lastRotation   \* the latest orientation / matrix request made of the
                 \* listener, and whether the renderer was still loading

vars == << pc, options, sources, room, position, tempMatrix4, renderer,
           initState, connections, allocated, log, lastCall, ret, history,
           lastRotation, defaults >>

\* One entry of `log`: what happened, on which index or source, and the
\* listener position, room reference point and renderer matrix right after.
Ev(kind, idx, pos, rm, rend) ==
  [kind |-> kind, idx |-> idx, position |-> pos, room |-> rm, renderer |-> rend]

NoRoom == [listenerPosition |-> Undefined, dimensions |-> Undefined,
           materials |-> Undefined]
NoRenderer == [ambisonicOrder |-> Undefined, HRIRUrl |-> Undefined,
               matrix |-> Undefined, ready |-> FALSE, held |-> Undefined]

Init ==
  /\ pc = "start"
  /\ options \in InitialOptions
  /\ sources = <<>>
  /\ room = NoRoom
  /\ position = Undefined
  /\ tempMatrix4 = Undefined
  /\ renderer = NoRenderer
  /\ initState = "none"
  /\ connections = {}
  /\ allocated = 0
  /\ log = <<>>
  /\ lastCall = [op |-> "none", args |-> <<>>]
  /\ ret = 0
  /\ history = <<>>
  /\ lastRotation = [kind |-> "none", args |-> <<>>, early |-> FALSE]
  /\ defaults \in DefaultChoices

\* ----------------------------------------------------------- construction

\* `if (v == undefined) v = d`.
Default(v, d) == IF v = Undefined THEN d ELSE v

\* Songbird constructor: "Use defaults for undefined arguments".
FillDefaults(o) ==
  [ambisonicOrder |-> Default(o.ambisonicOrder, DEFAULT_AMBISONIC_ORDER),
   listenerPosition |-> Default(o.listenerPosition, DEFAULT_POSITION),
   listenerForward |-> Default(o.listenerForward, DEFAULT_FORWARD),
   listenerUp |-> Default(o.listenerUp, DEFAULT_UP),
   dimensions |-> Default(o.dimensions, DEFAULT_DIMENSIONS),
   materials |-> Default(o.materials, DEFAULT_MATERIALS)]

\* new Room(context, {listenerPosition, dimensions, materials, speedOfSound}).
NewRoom(o) ==
  [listenerPosition |-> o.listenerPosition, dimensions |-> o.dimensions,
   materials |-> o.materials]

\* Listener constructor: the HRIR files chosen for an ambisonic order.
HRIRUrls(order) ==
  IF order = <<1>> THEN <<"foa-1-2.wav", "foa-3-4.wav">>
  ELSE IF order = <<2>> THEN
    <<"soa-1-2.wav", "soa-3-4.wav", "soa-5-6.wav", "soa-7-8.wav", "soa-9.wav">>
  ELSE IF order = <<3>> THEN
    <<"toa-1-2.wav", "toa-3-4.wav", "toa-5-6.wav", "toa-7-8.wav",
      "toa-9-10.wav", "toa-11-12.wav", "toa-13-14.wav", "toa-15-16.wav">>
  ELSE <<"">>

\* Number of ambisonic channels of an order: (order + 1)^2.
ChannelCount(order) == (order[1] + 1) * (order[1] + 1)

\* setOrientation storing the rows in the order forward, up, right.
OrientationMatrix_ForwardFirst(t, f, u) ==
  LET right == crossProduct(f, u)
      t0 == Store32(t, 0, At(f, 0))
      t1 == Store32(t0, 1, At(f, 1))
      t2 == Store32(t1, 2, At(f, 2))
      t3 == Store32(t2, 3, At(u, 0))
      t4 == Store32(t3, 4, At(u, 1))
      t5 == Store32(t4, 5, At(u, 2))
      t6 == Store32(t5, 6, At(right, 0))
      t7 == Store32(t6, 7, At(right, 1))
  IN Store32(t7, 8, At(right, 2))

\* setOrientation with the cross product taken the other way round
\* (right = up x forward).
OrientationMatrix_UpCrossForward(t, f, u) ==
  LET right == crossProduct(u, f)
      t0 == Store32(t, 0, At(right, 0))
      t1 == Store32(t0, 1, At(right, 1))
      t2 == Store32(t1, 2, At(right, 2))
      t3 == Store32(t2, 3, At(u, 0))
      t4 == Store32(t3, 4, At(u, 1))
      t5 == Store32(t4, 5, At(u, 2))
      t6 == Store32(t5, 6, At(f, 0))
      t7 == Store32(t6, 7, At(f, 1))
  IN Store32(t7, 8, At(f, 2))

\* Listener.setOrientation: the contents of _tempMatrix4 after the nine stores.
OrientationMatrix(t, f, u) ==
  LET right == crossProduct(f, u)
      t0 == Store32(t, 0, At(right, 0))
      t1 == Store32(t0, 1, At(right, 1))
      t2 == Store32(t1, 2, At(right, 2))
      t3 == Store32(t2, 3, At(u, 0))
      t4 == Store32(t3, 4, At(u, 1))
      t5 == Store32(t4, 5, At(u, 2))
      t6 == Store32(t5, 6, At(f, 0))
      t7 == Store32(t6, 7, At(f, 1))
  IN Store32(t7, 8, At(f, 2))

\* HOARenderer.setRotationMatrix(m): the renderer is handed the matrix
\* (matrix: the argument of the latest call).  It takes it as the rotation
\* it applies (held) only once it has initialized; a matrix handed to it
\* before that is not consumed.
SetRotationMatrix(r, m) ==
  [r EXCEPT !.matrix = m, !.held = IF r.ready THEN m ELSE @]

\* Listener.setOrientation(f, u) on matrix buffer t and renderer r:
\* the new buffer, the renderer, and the calls made.
ListenerSetOrientation(t, r, f, u, pos, rm) ==
  LET t9 == OrientationMatrix(t, f, u)
      r1 == SetRotationMatrix(r, t9)
  IN [tempMatrix4 |-> t9, renderer |-> r1,
      log |-> << Ev("renderer.setRotationMatrix", 0, pos, rm, r1.matrix) >>]

\* Lines 79-116 of the constructor: defaults, _sources, _room.
ConstructRoom ==
  /\ pc = "start"
  /\ pc' = "room"
  /\ options' = FillDefaults(options)
  /\ sources' = <<>>
  /\ room' = NewRoom(options')
  /\ log' = << Ev("new Room", 0, position, room'.listenerPosition,
                  renderer.matrix) >>
  /\ lastCall' = [op |-> "Songbird", args |-> <<options, options'>>]
  /\ UNCHANGED << position, tempMatrix4, renderer, initState, connections,
                  allocated, ret, history, lastRotation, defaults >>

\* Lines 117-122: new Listener(context, {ambisonicOrder, position, forward,
\* up}), the whole Listener constructor.
ConstructListener ==
  /\ pc = "room"
  /\ pc' = "listener"
  /\ LET order == Default(options.ambisonicOrder, DEFAULT_AMBISONIC_ORDER)
         pos == Default(options.listenerPosition, DEFAULT_POSITION)
         forward == Default(options.listenerForward, DEFAULT_FORWARD)
         up == Default(options.listenerUp, DEFAULT_UP)
         position0 == Float32Array(3)
         created == [ambisonicOrder |-> order, HRIRUrl |-> HRIRUrls(order),
                     matrix |-> Undefined, ready |-> FALSE,
                     held |-> Undefined]
     IN \E so \in { ListenerSetOrientation(Float32Array(16), created, forward,
                       up, position0, room.listenerPosition) } :
        /\ position' = position0
        /\ tempMatrix4' = so.tempMatrix4
        /\ renderer' = so.renderer
        /\ initState' = "pending"
        /\ log' = log \o << Ev("renderer.initialize", 0, position0,
                               room.listenerPosition, Undefined) >> \o so.log
        /\ lastRotation' = [kind |-> "orientation", args |-> <<forward, up>>,
                            early |-> TRUE]
  /\ UNCHANGED << options, sources, room, connections, allocated, lastCall,
                  ret, history, defaults >>

SceneConnections ==
  { "room.output->listener.input", "listener.output->songbird.output",
    "listener.ambisonicOutput->songbird.ambisonicOutput" }

BackendConnections ==
  { "listener.input->renderer.input",
    "renderer._hoaRotator.output->listener.ambisonicOutput",
    "renderer.output->listener.output" }

\* Lines 124-132: output nodes and the scene's own connections; the
\* constructor returns, and nothing reads its options or the default
\* constants afterwards.
ConnectGraph ==
  /\ pc = "listener"
  /\ pc' = "ready"
  /\ connections' = connections \union SceneConnections
  /\ log' = log \o << Ev("connect", 0, position, room.listenerPosition,
                         renderer.matrix) >>
  /\ options' = Undefined
  /\ defaults' = Undefined
  /\ UNCHANGED << sources, room, position, tempMatrix4, renderer, initState,
                  allocated, lastCall, ret, history, lastRotation >>

\* The renderer finishes loading: from now on it consumes the matrices it
\* is handed; the promise of initialize() resolves and its continuation is
\* queued.
BackendInitialized ==
  /\ initState = "pending"
  /\ initState' = "resolved"
  /\ renderer' = [renderer EXCEPT !.ready = TRUE]
  /\ UNCHANGED << pc, options, sources, room, position, tempMatrix4,
                  connections, allocated, log, lastCall, ret, history,
                  lastRotation, defaults >>

\* The three connections made at once, without waiting for the promise.
RunContinuation_Unawaited ==
  /\ initState \in {"pending", "resolved"}
  /\ pc = "ready"
  /\ BackendConnections \ connections # {}
  /\ initState' = IF initState = "resolved" THEN "done" ELSE initState
  /\ connections' = connections \union BackendConnections
  /\ UNCHANGED << pc, options, sources, room, position, tempMatrix4, renderer,
                  allocated, log, lastCall, ret, history, lastRotation,
                  defaults >>

\* A continuation that runs as soon as the promise resolves, whatever code
\* is running.
RunContinuation_Preempting ==
  /\ initState = "resolved"
  /\ initState' = "done"
  /\ connections' = connections \union BackendConnections
  /\ UNCHANGED << pc, options, sources, room, position, tempMatrix4, renderer,
                  allocated, log, lastCall, ret, history, lastRotation,
                  defaults >>

\* A continuation that makes one of the three connections per run.
RunContinuation_OneAtATime ==
  /\ initState = "resolved"
  /\ pc = "ready"
  /\ \E c \in BackendConnections \ connections :
       /\ connections' = connections \union {c}
       /\ initState' = IF BackendConnections \subseteq connections'
                       THEN "done" ELSE "resolved"
  /\ UNCHANGED << pc, options, sources, room, position, tempMatrix4, renderer,
                  allocated, log, lastCall, ret, history, lastRotation,
                  defaults >>

\* The continuation given to then(): a promise job, run once, only when no
\* other JavaScript is running.
RunContinuation ==
  /\ initState = "resolved"
  /\ pc = "ready"
  /\ initState' = "done"
  /\ connections' = connections \union BackendConnections
  /\ UNCHANGED << pc, options, sources, room, position, tempMatrix4, renderer,
                  allocated, log, lastCall, ret, history, lastRotation,
                  defaults >>

\* ------------------------------------------------------------ operations

\* new Source(songbird, options): a fresh object, identified by its handle.
NewSource(handle, o) == [id |-> handle, options |-> o]

\* createSource that hands back an existing source with the same options.
SongbirdCreateSource_Dedup(srcs, n, o) ==
  IF \E i \in DOMAIN srcs : srcs[i].options = o
  THEN [sources |-> srcs,
        ret |-> srcs[CHOOSE i \in DOMAIN srcs : srcs[i].options = o].id]
  ELSE [sources |-> Append(srcs, [id |-> n + 1, options |-> o]), ret |-> n + 1]

\* Songbird.createSource: `_sources[_sources.length] = source; return source`.
SongbirdCreateSource(srcs, n, o) ==
  LET source == NewSource(n + 1, o)
  IN [sources |-> [i \in 1..(Len(srcs) + 1) |->
                     IF i <= Len(srcs) THEN srcs[i] ELSE source],
      ret |-> source.id]

\* Room.setProperties(dimensions, materials): supplied fields replace the
\* stored ones, the others stay.
RoomSetProperties(r, d, m) ==
  [r EXCEPT !.dimensions = Default(d, @), !.materials = Default(m, @)]

\* Room.setListenerPosition(x, y, z): the reflections' reference point.
RoomSetListenerPosition(r, x, y, z) == [r EXCEPT !.listenerPosition = <<x, y, z>>]

\* A forEach that stops one element short.
UpdateSources_SkipLast(srcs, pos, rm, rend) ==
  [i \in 1..(Len(srcs) - 1) |-> Ev("source._update", srcs[i].id, pos, rm, rend)]

\* `_sources.forEach(element => element._update())`: one call per element,
\* in index order; each sees the listener and room as they are then.
UpdateSources(srcs, pos, rm, rend) ==
  [i \in 1..Len(srcs) |-> Ev("source._update", srcs[i].id, pos, rm, rend)]

\* setListenerPosition that moves listener and room but updates no source.
SongbirdSetListenerPosition_NoUpdate(pos, r, rend, srcs, x, y, z) ==
  LET p0 == Store32(pos, 0, x)
      p1 == Store32(p0, 1, y)
      p2 == Store32(p1, 2, z)
      r1 == [r EXCEPT !.listenerPosition = <<x, y, z>>]
  IN [position |-> p2, room |-> r1,
      log |-> << Ev("listener.position", 0, p0, r.listenerPosition, rend),
                 Ev("listener.position", 1, p1, r.listenerPosition, rend),
                 Ev("listener.position", 2, p2, r.listenerPosition, rend),
                 Ev("room.setListenerPosition", 0, p2, r1.listenerPosition,
                    rend) >>]

\* setListenerPosition with the source pass moved ahead of the room call.
SongbirdSetListenerPosition_SourcesFirst(pos, r, rend, srcs, x, y, z) ==
  LET p0 == Store32(pos, 0, x)
      p1 == Store32(p0, 1, y)
      p2 == Store32(p1, 2, z)
      r1 == [r EXCEPT !.listenerPosition = <<x, y, z>>]
  IN [position |-> p2, room |-> r1,
      log |-> << Ev("listener.position", 0, p0, r.listenerPosition, rend),
                 Ev("listener.position", 1, p1, r.listenerPosition, rend),
                 Ev("listener.position", 2, p2, r.listenerPosition, rend) >>
              \o [i \in 1..Len(srcs) |->
                    Ev("source._update", srcs[i].id, p2, r.listenerPosition,
                       rend)]
              \o << Ev("room.setListenerPosition", 0, p2, r1.listenerPosition,
                       rend) >>]

\* Songbird.setListenerPosition(x, y, z).
SongbirdSetListenerPosition(pos, r, rend, srcs, x, y, z) ==
  LET p0 == Store32(pos, 0, x)
      p1 == Store32(p0, 1, y)
      p2 == Store32(p1, 2, z)
      r1 == RoomSetListenerPosition(r, x, y, z)
  IN [position |-> p2, room |-> r1,
      log |-> << Ev("listener.position", 0, p0, r.listenerPosition, rend),
                 Ev("listener.position", 1, p1, r.listenerPosition, rend),
                 Ev("listener.position", 2, p2, r.listenerPosition, rend),
                 Ev("room.setListenerPosition", 0, p2, r1.listenerPosition,
                    rend) >>
              \o UpdateSources(srcs, p2, r1.listenerPosition, rend)]

\* setFromMatrix reading the 3x3 block transposed (elements 0,4,8, 1,5,9,
\* 2,6,10).
MatrixRotation_Transposed(t, e) ==
  LET t0 == Store32(t, 0, At(e, 0))
      t1 == Store32(t0, 1, At(e, 4))
      t2 == Store32(t1, 2, At(e, 8))
      t3 == Store32(t2, 3, At(e, 1))
      t4 == Store32(t3, 4, At(e, 5))
      t5 == Store32(t4, 5, At(e, 9))
      t6 == Store32(t5, 6, At(e, 2))
      t7 == Store32(t6, 7, At(e, 6))
  IN Store32(t7, 8, At(e, 10))

\* Listener.setFromMatrix: the contents of _tempMatrix4 after the nine stores.
MatrixRotation(t, e) ==
  LET t0 == Store32(t, 0, At(e, 0))
      t1 == Store32(t0, 1, At(e, 1))
      t2 == Store32(t1, 2, At(e, 2))
      t3 == Store32(t2, 3, At(e, 4))
      t4 == Store32(t3, 4, At(e, 5))
      t5 == Store32(t4, 5, At(e, 6))
      t6 == Store32(t5, 6, At(e, 8))
      t7 == Store32(t6, 7, At(e, 9))
  IN Store32(t7, 8, At(e, 10))

\* setFromMatrix taking the position from the fourth row (3, 7, 11).
ListenerSetFromMatrix_Row(pos, t, rend, rm, e) ==
  LET t9 == MatrixRotation(t, e)
      r1 == SetRotationMatrix(rend, t9)
      p0 == Store32(pos, 0, At(e, 3))
      p1 == Store32(p0, 1, At(e, 7))
      p2 == Store32(p1, 2, At(e, 11))
  IN [position |-> p2, tempMatrix4 |-> t9, renderer |-> r1,
      log |-> << Ev("renderer.setRotationMatrix", 0, pos, rm, r1.matrix),
                 Ev("listener.position", 0, p0, rm, r1.matrix),
                 Ev("listener.position", 1, p1, rm, r1.matrix),
                 Ev("listener.position", 2, p2, rm, r1.matrix) >>]

\* Listener.setFromMatrix(matrix4), e = matrix4.elements.
ListenerSetFromMatrix(pos, t, rend, rm, e) ==
  LET t9 == MatrixRotation(t, e)
      r1 == SetRotationMatrix(rend, t9)
      p0 == Store32(pos, 0, At(e, 12))
      p1 == Store32(p0, 1, At(e, 13))
      p2 == Store32(p1, 2, At(e, 14))
  IN [position |-> p2, tempMatrix4 |-> t9, renderer |-> r1,
      log |-> << Ev("renderer.setRotationMatrix", 0, pos, rm, r1.matrix),
                 Ev("listener.position", 0, p0, rm, r1.matrix),
                 Ev("listener.position", 1, p1, rm, r1.matrix),
                 Ev("listener.position", 2, p2, rm, r1.matrix) >>]

\* setListenerFromMatrix that only delegates to the listener.
SongbirdSetListenerFromMatrix_NoPass(pos, t, rend, r, srcs, e) ==
  Only({ [position |-> l.position, tempMatrix4 |-> l.tempMatrix4,
          renderer |-> l.renderer, room |-> r, log |-> l.log] :
         l \in { ListenerSetFromMatrix(pos, t, rend, r.listenerPosition, e) } })

\* A pass after setFromMatrix that updates the sources without telling the
\* room the new position.
SongbirdSetListenerFromMatrixPass_RoomNotTold(l, r, srcs) ==
  [position |-> l.position, tempMatrix4 |-> l.tempMatrix4,
   renderer |-> l.renderer, room |-> r,
   log |-> l.log \o UpdateSources(srcs, l.position, r.listenerPosition,
                                  l.renderer.matrix)]

\* Songbird.setListenerFromMatrix, lines 229-230: the setListenerPosition
\* call, given the listener l as setFromMatrix left it.
SongbirdSetListenerFromMatrixPass(l, r, srcs) ==
  Only({ [position |-> s.position, tempMatrix4 |-> l.tempMatrix4,
          renderer |-> l.renderer, room |-> s.room, log |-> l.log \o s.log] :
         s \in { SongbirdSetListenerPosition(l.position, r, l.renderer.matrix,
                   srcs, At(l.position, 0), At(l.position, 1),
                   At(l.position, 2)) } })

\* Songbird.setListenerFromMatrix(matrix), e = matrix.elements.
SongbirdSetListenerFromMatrix(pos, t, rend, r, srcs, e) ==
  Only({ SongbirdSetListenerFromMatrixPass(l, r, srcs) :
         l \in { ListenerSetFromMatrix(pos, t, rend, r.listenerPosition, e) } })

CreateSource ==
  /\ pc = "ready"
  /\ allocated < MaxSources
  /\ \E o \in SourceOptions :
       \E c \in { SongbirdCreateSource(sources, allocated, o) } :
          /\ sources' = c.sources
          /\ ret' = c.ret
          /\ allocated' = allocated + 1
          /\ history' = Append(history, [handle |-> c.ret, options |-> o])
          /\ lastCall' = [op |-> "createSource", args |-> <<o>>]
          /\ log' = << Ev("new Source", allocated + 1, position,
                          room.listenerPosition, renderer.matrix) >>
  /\ UNCHANGED << pc, options, room, position, tempMatrix4, renderer,
                  initState, connections, lastRotation, defaults >>

\* setRoomProperties followed by a source-update pass.
SetRoomProperties_WithUpdate ==
  /\ pc = "ready"
  /\ \E dm \in RoomProperties :
       /\ room' = RoomSetProperties(room, dm[1], dm[2])
       /\ lastCall' = [op |-> "setRoomProperties", args |-> dm]
       /\ log' = << Ev("room.setProperties", 0, position,
                       room.listenerPosition, renderer.matrix) >>
                 \o UpdateSources(sources, position, room.listenerPosition,
                                  renderer.matrix)
  /\ ret' = 0
  /\ UNCHANGED << pc, options, sources, position, tempMatrix4, renderer,
                  initState, connections, allocated, history, lastRotation,
                  defaults >>

\* Songbird.setRoomProperties(dimensions, materials).
SetRoomProperties ==
  /\ pc = "ready"
  /\ \E dm \in RoomProperties :
       /\ room' = RoomSetProperties(room, dm[1], dm[2])
       /\ lastCall' = [op |-> "setRoomProperties", args |-> dm]
       /\ log' = << Ev("room.setProperties", 0, position,
                       room.listenerPosition, renderer.matrix) >>
  /\ ret' = 0
  /\ UNCHANGED << pc, options, sources, position, tempMatrix4, renderer,
                  initState, connections, allocated, history, lastRotation,
                  defaults >>

SetListenerPosition ==
  /\ pc = "ready"
  /\ \E p \in Positions :
       \E s \in { SongbirdSetListenerPosition(position, room,
                    renderer.matrix, sources, p[1], p[2], p[3]) } :
          /\ position' = s.position
          /\ room' = s.room
          /\ log' = s.log
          /\ lastCall' = [op |-> "setListenerPosition", args |-> p]
  /\ ret' = 0
  /\ UNCHANGED << pc, options, sources, tempMatrix4, renderer, initState,
                  connections, allocated, history, lastRotation, defaults >>

\* setListenerOrientation followed by a source-update pass.
SetListenerOrientation_WithUpdate ==
  /\ pc = "ready"
  /\ \E fu \in Orientations :
       \E s \in { ListenerSetOrientation(tempMatrix4, renderer, fu[1], fu[2],
                    position, room.listenerPosition) } :
          /\ tempMatrix4' = s.tempMatrix4
          /\ renderer' = s.renderer
          /\ log' = s.log \o UpdateSources(sources, position,
                                           room.listenerPosition,
                                           s.renderer.matrix)
          /\ lastCall' = [op |-> "setListenerOrientation", args |-> fu]
          /\ lastRotation' = [kind |-> "orientation", args |-> fu,
                              early |-> initState = "pending"]
  /\ ret' = 0
  /\ UNCHANGED << pc, options, sources, room, position, initState,
                  connections, allocated, history, defaults >>

\* Songbird.setListenerOrientation(forwardX, ..., upZ).
SetListenerOrientation ==
  /\ pc = "ready"
  /\ \E fu \in Orientations :
       \E s \in { ListenerSetOrientation(tempMatrix4, renderer, fu[1], fu[2],
                    position, room.listenerPosition) } :
          /\ tempMatrix4' = s.tempMatrix4
          /\ renderer' = s.renderer
          /\ log' = s.log
          /\ lastCall' = [op |-> "setListenerOrientation", args |-> fu]
          /\ lastRotation' = [kind |-> "orientation", args |-> fu,
                              early |-> initState = "pending"]
  /\ ret' = 0
  /\ UNCHANGED << pc, options, sources, room, position, initState,
                  connections, allocated, history, defaults >>

SetListenerFromMatrix ==
  /\ pc = "ready"
  /\ \E e \in Matrices :
       \E s \in { SongbirdSetListenerFromMatrix(position, tempMatrix4,
                    renderer, room, sources, e) } :
          /\ position' = s.position
          /\ tempMatrix4' = s.tempMatrix4
          /\ renderer' = s.renderer
          /\ room' = s.room
          /\ log' = s.log
          /\ lastCall' = [op |-> "setListenerFromMatrix", args |-> e]
          /\ lastRotation' = [kind |-> "matrix", args |-> e,
                              early |-> initState = "pending"]
  /\ ret' = 0
  /\ UNCHANGED << pc, options, sources, initState, connections, allocated,
                  history, defaults >>

Next ==
  \/ ConstructRoom
  \/ ConstructListener
  \/ ConnectGraph
  \/ BackendInitialized
  \/ RunContinuation
  \/ CreateSource
  \/ SetRoomProperties
  \/ SetListenerPosition
  \/ SetListenerOrientation
  \/ SetListenerFromMatrix

Spec == Init /\ [][Next]_vars

\* The same program with the scheduling JavaScript guarantees: the
\* constructor, being synchronous code, runs to its end, and the
\* continuation of a resolved promise is run once the call stack is empty.
\* Nothing obliges the renderer to finish loading or the caller to call.
FairSpec ==
  /\ Spec
  /\ WF_vars(ConstructRoom)
  /\ WF_vars(ConstructListener)
  /\ WF_vars(ConnectGraph)
  /\ WF_vars(RunContinuation)

\* ---------------------------------------------------------------- claims

\* The _update calls of the handler that ran last, in the order made.
UpdateEvents == SelectSeq(log, LAMBDA ev : ev.kind = "source._update")

\* The sources those calls were made on.
UpdatedHandles == [i \in 1..Len(UpdateEvents) |-> UpdateEvents[i].idx]

\* The handles createSource has returned, in call order.
Handles == [i \in 1..Len(history) |-> history[i].handle]

\* (x, y, z) as three Float32Array elements hold it.
Round3(v) == << Fround(v[1]), Fround(v[2]), Fround(v[3]) >>

\* The translation column of a world matrix: elements 12, 13, 14.
Translation(e) == << At(e, 12), At(e, 13), At(e, 14) >>

\* Before log entry u, the listener position was written to hold (x, y, z)
\* in single precision and the room was told (x, y, z).
WrittenBefore(u, xyz) ==
  /\ \A k \in 0..2 :
       \E i \in 1..(u - 1) :
         /\ log[i].kind = "listener.position"
         /\ log[i].idx = k
         /\ At(log[i].position, k) = Fround(At(xyz, k))
  /\ \E i \in 1..(u - 1) :
       /\ log[i].kind = "room.setListenerPosition"
       /\ log[i].room = xyz

\* C1 as stated: in setListenerPosition(x, y, z) the three writes and the
\* room call come before the first source update, and every source update
\* observes the listener position (x, y, z) itself and a room told (x, y, z).
C1_SourcesObserveExactPosition ==
  lastCall.op = "setListenerPosition" =>
    \A u \in DOMAIN log :
      log[u].kind = "source._update" =>
        /\ WrittenBefore(u, lastCall.args)
        /\ log[u].position = lastCall.args
        /\ log[u].room = lastCall.args

\* C1, amended: in every setListenerPosition(x, y, z) call (made by the
\* caller, or by setListenerFromMatrix with the position it read back) the
\* three writes to Listener.position and Room.setListenerPosition(x, y, z)
\* come before the first source update; every source update observes the
\* listener position holding (x, y, z) rounded to single precision and a
\* room already told (x, y, z).
C1_ListenerAndRoomBeforeSources ==
  lastCall.op \in {"setListenerPosition", "setListenerFromMatrix"} =>
    LET xyz == IF lastCall.op = "setListenerPosition" THEN lastCall.args
               ELSE Round3(Translation(lastCall.args))
    IN /\ position = Round3(xyz)
       /\ room.listenerPosition = xyz
       /\ \A u \in DOMAIN log :
            log[u].kind = "source._update" =>
              /\ WrittenBefore(u, xyz)
              /\ log[u].position = Round3(xyz)
              /\ log[u].room = xyz

\* C1 witness: two sources were updated by setListenerPosition with
\* coordinates that single precision cannot hold.
C1_Witness ==
  /\ lastCall.op = "setListenerPosition"
  /\ Len(UpdateEvents) = 2
  /\ position # lastCall.args

\* C2: one setListenerPosition call updates each source created so far
\* exactly once, in creation order: the sources updated, in the order of the
\* calls, are the handles createSource returned, in the order returned.
C2_EachSourceOnceInCreationOrder ==
  lastCall.op = "setListenerPosition" => UpdatedHandles = Handles

\* C2 witness: setListenerPosition ran with as many sources as the bound
\* allows, all updated.
C2_Witness ==
  /\ lastCall.op = "setListenerPosition"
  /\ Len(history) = MaxSources
  /\ Len(UpdateEvents) = MaxSources

\* C3 as stated: after setListenerFromMatrix(m) the room has received the
\* translation of m, the listener holds it, and every source was updated
\* once, in order, seeing both: the outcome of Listener.setFromMatrix(m)
\* followed by setListenerPosition(translation of m).
C3_RoomReceivesExactTranslation ==
  lastCall.op = "setListenerFromMatrix" =>
    LET t == Translation(lastCall.args)
    IN /\ position = Round3(t)
       /\ room.listenerPosition = t
       /\ UpdatedHandles = Handles
       /\ \A i \in DOMAIN UpdateEvents :
            /\ UpdateEvents[i].position = Round3(t)
            /\ UpdateEvents[i].room = t

\* C3, amended: setListenerFromMatrix(m) runs the same full pass as
\* setListenerPosition, with the position the listener reads back: after the
\* listener has pushed the rotation and stored the position, the room
\* receives the translation of m rounded to single precision, and every
\* source is updated exactly once in collection order, observing that
\* listener position, that room reference point and the new rotation.
C3_FromMatrixRunsFullPass ==
  lastCall.op = "setListenerFromMatrix" =>
    LET t == Round3(Translation(lastCall.args))
        roomCalls == {i \in DOMAIN log : log[i].kind = "room.setListenerPosition"}
    IN /\ position = t
       /\ room.listenerPosition = t
       /\ Cardinality(roomCalls) = 1
       /\ \A i \in roomCalls :
            /\ log[i].room = t
            /\ log[i].position = t
            /\ \E j \in 1..(i - 1) : log[j].kind = "renderer.setRotationMatrix"
            /\ \A j \in DOMAIN log : log[j].kind = "source._update" => i < j
       /\ UpdatedHandles = [i \in 1..Len(sources) |-> sources[i].id]
       /\ \A i \in DOMAIN UpdateEvents :
            /\ UpdateEvents[i].position = t
            /\ UpdateEvents[i].room = t
            /\ UpdateEvents[i].renderer = tempMatrix4

\* C3 witness: setListenerFromMatrix ran with two sources and a translation
\* that single precision cannot hold.
C3_Witness ==
  /\ lastCall.op = "setListenerFromMatrix"
  /\ Len(UpdateEvents) = 2
  /\ room.listenerPosition # Translation(lastCall.args)

\* C4: the source collection is the sequence of sources createSource has
\* returned, in call order, each with the options it was created with; the
\* handles are all different, and the latest createSource returned the
\* source now at the end.
C4_SourcesAreTheCreatedOnes ==
  /\ sources = [i \in 1..Len(history) |->
                  [id |-> history[i].handle, options |-> history[i].options]]
  /\ \A i, j \in DOMAIN history :
       history[i].handle = history[j].handle => i = j
  /\ Len(history) = allocated
  /\ lastCall.op = "createSource" =>
       /\ sources # <<>>
       /\ ret = sources[Len(sources)].id
       /\ sources[Len(sources)].options = lastCall.args[1]

\* C4 witness: the same options were passed twice, giving two entries, and
\* another operation has run since.
C4_Witness ==
  /\ Len(sources) = 2
  /\ sources[1].options = sources[2].options
  /\ sources[1].id # sources[2].id
  /\ lastCall.op = "setListenerFromMatrix"

\* C5 as stated: after setting the listener from m, the listener position
\* reads exactly (m.elements[12], m.elements[13], m.elements[14]).
C5_PositionIsExactTranslation ==
  lastCall.op = "setListenerFromMatrix" =>
    position = Translation(lastCall.args)

\* C5, amended: after Listener.setFromMatrix(m), and after
\* Songbird.setListenerFromMatrix(m), the listener position reads the
\* translation column of m rounded to single precision, component by
\* component; it is the column itself when single precision holds it.
C5_PositionIsRoundedTranslation ==
  lastCall.op = "setListenerFromMatrix" =>
    LET t == Translation(lastCall.args)
    IN /\ Len(log) >= 4
       /\ log[4].kind = "listener.position"
       /\ log[4].position = Round3(t)
       /\ position = Round3(t)
       /\ (\A k \in 1..3 : t[k] <= F32Exact /\ 0 - t[k] <= F32Exact)
            => position = t

\* C5 witness: the listener was set from a matrix whose translation single
\* precision cannot hold, and reads back the rounded column.
C5_Witness ==
  /\ lastCall.op = "setListenerFromMatrix"
  /\ position # Translation(lastCall.args)
  /\ position = Round3(Translation(lastCall.args))

\* The nine numbers the latest orientation / matrix request asks for: rows
\* right = forward x up, up, forward; or elements 0,1,2, 4,5,6, 8,9,10.
RequestedRotation ==
  LET a == lastRotation.args
  IN IF lastRotation.kind = "orientation"
     THEN LET f == a[1]
              u == a[2]
          IN << f[2] * u[3] - f[3] * u[2], f[3] * u[1] - f[1] * u[3],
                f[1] * u[2] - f[2] * u[1], u[1], u[2], u[3], f[1], f[2], f[3] >>
     ELSE << a[1], a[2], a[3], a[5], a[6], a[7], a[9], a[10], a[11] >>

\* A 16-element single-precision buffer holding nine numbers, then zeros.
Buffer16(nine) == [i \in 1..16 |-> IF i <= 9 THEN Fround(nine[i]) ELSE 0]

\* C6: once the renderer has finished initializing, and when its graph is
\* wired, the rotation matrix it holds (applies) is the one of the most
\* recent setOrientation / setFromMatrix request, whenever that request
\* was made -- in particular when it was made before initialization
\* completed.
C6_RendererHoldsLatestRotation ==
  initState \in {"resolved", "done"} =>
    renderer.held = Buffer16(RequestedRotation)

\* C7: no connection between listener and renderer exists unless the
\* renderer's initialization has completed, and at the step in which the
\* scene constructor returns none of the three exists.
C7_BackendWiredOnlyAfterInit ==
  /\ [](connections \cap BackendConnections # {}
          => initState \in {"resolved", "done"})
  /\ [][pc # "ready" /\ pc' = "ready"
          => connections' \cap BackendConnections = {}]_vars

\* C7 witness: the constructor has returned, initialization completed
\* while it ran, and the three connections are still to be made.
C7_Witness ==
  /\ pc = "ready"
  /\ lastCall.op = "Songbird"
  /\ initState = "resolved"
  /\ connections = SceneConnections

\* C8: right after construction the listener position reads the configured
\* options.listenerPosition (the default position when none was given).
C8_InitialPositionIsConfigured ==
  (pc = "ready" /\ lastCall.op = "Songbird") =>
    position = Round3(Default(lastCall.args[1].listenerPosition,
                              DEFAULT_POSITION))

\* C9: an orientation or world-matrix update made while the renderer is
\* still initializing hands no rotation matrix to the renderer.
C9_EarlyUpdateMakesNoPush ==
  (/\ lastCall.op \in {"setListenerOrientation", "setListenerFromMatrix"}
   /\ lastRotation.early)
  => \A i \in DOMAIN log : log[i].kind # "renderer.setRotationMatrix"

\* C10: setOrientation with forward parallel to up (forward x up = 0) hands
\* no matrix to the renderer and does not store the degenerate matrix.
C10_ParallelOrientationRejected ==
  (/\ lastCall.op = "setListenerOrientation"
   /\ crossProduct(lastCall.args[1], lastCall.args[2]) = <<0, 0, 0>>)
  => /\ \A i \in DOMAIN log : log[i].kind # "renderer.setRotationMatrix"
     /\ tempMatrix4 # Buffer16(RequestedRotation)
     /\ renderer.matrix # Buffer16(RequestedRotation)

\* C11: constructing a scene with an ambisonicOrder (as given, or as
\* default-filled when none is given) outside {1, 2, 3} fails:
\* the constructor does not go on to create the renderer (with the empty
\* impulse-response list, or at all) and does not return a scene.
C11_UnsupportedOrderFailsConstruction ==
  (/\ lastCall.op = "Songbird"
   /\ lastCall.args[2].ambisonicOrder \notin { <<1>>, <<2>>, <<3>> })
  => /\ renderer = NoRenderer
     /\ pc # "ready"

\* The setRotationMatrix calls of the handler that ran last.
PushEvents == SelectSeq(log, LAMBDA ev : ev.kind = "renderer.setRotationMatrix")

\* C12: after setOrientation(f, u) -- from setListenerOrientation or from
\* the constructor -- elements 0-2 of the stored matrix are f x u, 3-5 are
\* u and 6-8 are f (as single-precision values); that matrix is what the
\* renderer was handed, and it was handed exactly one matrix by the call.
C12_OrientationStoresAndPushesRows ==
  (\/ lastCall.op = "setListenerOrientation"
   \/ lastCall.op = "Songbird" /\ pc \in {"listener", "ready"})
  => LET f == lastRotation.args[1]
         u == lastRotation.args[2]
         rows == crossProduct(f, u) \o u \o f
     IN /\ \A k \in 0..8 : At(tempMatrix4, k) = Fround(rows[k + 1])
        /\ renderer.matrix = tempMatrix4
        /\ Len(PushEvents) = 1
        /\ PushEvents[1].renderer = tempMatrix4

\* C12 witness: setListenerOrientation was called with the oblique pair
\* f = (1,1,0), u = (0,1,0), and the renderer holds rows (0,0,1), u, f.
C12_Witness ==
  /\ lastCall.op = "setListenerOrientation"
  /\ lastCall.args = << <<1, 1, 0>>, <<0, 1, 0>> >>
  /\ SubSeq(renderer.matrix, 1, 9) = <<0, 0, 1, 0, 1, 0, 1, 1, 0>>

\* Dot product of two 3-vectors, and row i (0..2) of a stored 3x3 matrix.
Dot(a, b) == a[1] * b[1] + a[2] * b[2] + a[3] * b[3]
Row(m, i) == SubSeq(m, 3 * i + 1, 3 * i + 3)

\* C13: after setOrientation(f, u) with f not parallel to u, the three rows
\* of the matrix handed to the renderer are pairwise orthogonal and each of
\* unit length -- also when f and u are not perpendicular.
C13_RowsAreOrthonormal ==
  (/\ lastCall.op = "setListenerOrientation"
   /\ crossProduct(lastCall.args[1], lastCall.args[2]) # <<0, 0, 0>>)
  => \A i, j \in 0..2 :
       Dot(Row(renderer.matrix, i), Row(renderer.matrix, j))
         = IF i = j THEN 1 ELSE 0

\* The scene has just been constructed with ambisonicOrder 1 and the
\* default position, forward and up (none of the three supplied).
DefaultScene ==
  /\ pc = "ready"
  /\ lastCall.op = "Songbird"
  /\ lastCall.args[1].ambisonicOrder = <<1>>
  /\ lastCall.args[1].listenerPosition = Undefined
  /\ lastCall.args[1].listenerForward = Undefined
  /\ lastCall.args[1].listenerUp = Undefined

\* C14 as stated: the default first-order scene has 4 channels and the 3x3
\* identity as rotation submatrix.
C14_DefaultSceneHasIdentityRotation ==
  DefaultScene =>
    /\ ChannelCount(renderer.ambisonicOrder) = 4
    /\ SubSeq(tempMatrix4, 1, 9) = <<1, 0, 0, 0, 1, 0, 0, 0, 1>>

\* C14: the default first-order scene has 4 channels, and its rotation
\* submatrix has the rows forward x up, up, forward of the default forward
\* and up (as default-filled by the constructor); that matrix is not the
\* 3x3 identity.
C14_DefaultSceneRotationRows ==
  DefaultScene =>
    LET f == lastCall.args[2].listenerForward
        u == lastCall.args[2].listenerUp
    IN /\ ChannelCount(renderer.ambisonicOrder) = 4
       /\ tempMatrix4 = Buffer16(crossProduct(f, u) \o u \o f)
       /\ SubSeq(tempMatrix4, 1, 9) # <<1, 0, 0, 0, 1, 0, 0, 0, 1>>

\* C14 witness: a scene constructed with ambisonicOrder 1 given and nothing
\* else, whose default forward and up are (0,0,1) and (0,1,0): its rows
\* are (-1,0,0), (0,1,0), (0,0,1).
C14_Witness ==
  /\ DefaultScene
  /\ renderer.ambisonicOrder = <<1>>
  /\ lastCall.args[2].listenerForward = <<0, 0, 1>>
  /\ lastCall.args[2].listenerUp = <<0, 1, 0>>
  /\ SubSeq(tempMatrix4, 1, 9) = <<0 - 1, 0, 0, 0, 1, 0, 0, 0, 1>>

\* C15: setRoomProperties(dimensions, materials) makes one call, to
\* Room.setProperties with the same two arguments, and no source update;
\* the step leaves the listener position, the rotation matrix (stored and
\* held by the renderer), the source collection and the room's reference
\* point as they were.
C15_SetRoomPropertiesOnlyDelegates ==
  /\ [](lastCall.op = "setRoomProperties"
          => /\ Len(log) = 1
             /\ log[1].kind = "room.setProperties"
             /\ UpdateEvents = <<>>)
  /\ [][lastCall'.op = "setRoomProperties"
          => /\ room' \in { room, RoomSetProperties(room, lastCall'.args[1],
                                                    lastCall'.args[2]) }
             /\ position' = position
             /\ tempMatrix4' = tempMatrix4
             /\ [renderer' EXCEPT !.ready = renderer.ready] = renderer
             /\ sources' = sources]_vars

\* C15 witness: setRoomProperties ran on a scene with two sources and a
\* moved listener, and the room took the new dimensions.
C15_Witness ==
  /\ lastCall.op = "setRoomProperties"
  /\ Len(sources) = 2
  /\ position = <<3, 4, 5>>
  /\ room.dimensions = <<2, 3, 4>>
  /\ room.listenerPosition = <<3, 4, 5>>

\* The handles of Songbird._sources, in index order.
SourceHandles == [i \in 1..Len(sources) |-> sources[i].id]

\* C16 as stated: each of setListenerPosition, setListenerOrientation and
\* setListenerFromMatrix invokes _update on every existing source before
\* it returns.
C16_EveryTransformChangeUpdatesSources ==
  lastCall.op \in {"setListenerPosition", "setListenerOrientation",
                   "setListenerFromMatrix"}
  => \A i \in DOMAIN sources :
       \E k \in DOMAIN UpdateEvents : UpdateEvents[k].idx = sources[i].id

\* C16: the operations that change the listener's position --
\* setListenerPosition and setListenerFromMatrix -- invoke _update on every
\* existing source before they return; setListenerOrientation, which
\* changes the orientation only, invokes _update on none.
C16_PositionChangeUpdatesSources ==
  /\ lastCall.op \in {"setListenerPosition", "setListenerFromMatrix"}
     => /\ \A i \in DOMAIN sources :
             \E k \in DOMAIN UpdateEvents : UpdateEvents[k].idx = sources[i].id
        /\ UpdatedHandles = SourceHandles
  /\ lastCall.op = "setListenerOrientation" => UpdateEvents = <<>>

\* C16 witness: with two sources in the scene, the listener was set from a
\* world matrix and two _update calls were made, the last one after the
\* room had been told the new position.
C16_Witness ==
  /\ lastCall.op = "setListenerFromMatrix"
  /\ Len(sources) = 2
  /\ Len(UpdateEvents) = 2
  /\ UpdateEvents[2].room = <<5, 6, 7>>

\* The connections between listener and renderer made so far.
BackendMade == connections \cap BackendConnections

\* C17: once the renderer's initialization has completed, the three
\* listener-renderer connections are eventually made; they are made in one
\* step, from none to all three, by the continuation, and after that step
\* no further run of it happens and the connections stay as they are,
\* whatever operations follow.  While initialization has not completed none
\* of the three exists, and every scene operation can still be carried out.
C17_ContinuationRunsExactlyOnce ==
  /\ (initState = "resolved") ~> (BackendMade = BackendConnections)
  /\ [][BackendMade' # BackendMade
          => /\ BackendMade = {}
             /\ BackendMade' = BackendConnections
             /\ initState = "resolved"
             /\ initState' = "done"]_vars
  /\ [][initState = "done"
          => initState' = "done" /\ connections' = connections]_vars
  /\ [](initState \in {"none", "pending"} => BackendMade = {})
  /\ [](pc = "ready" /\ initState = "pending"
          => /\ ENABLED SetRoomProperties
             /\ ENABLED SetListenerPosition
             /\ ENABLED SetListenerOrientation
             /\ ENABLED SetListenerFromMatrix
             /\ (allocated < MaxSources => ENABLED CreateSource))

\* C17 witness: the three connections have been made, and a source was
\* created and the listener moved afterwards.
C17_Witness ==
  /\ initState = "done"
  /\ BackendMade = BackendConnections
  /\ Len(sources) = 1
  /\ lastCall.op = "setListenerPosition"
  /\ Len(UpdateEvents) = 1

\* The matrix elements e hold the triples (f x u, u, f) at 0-2, 4-6, 8-10.
HoldsOrientation(e, f, u) ==
  /\ << At(e, 0), At(e, 1), At(e, 2) >> = crossProduct(f, u)
  /\ << At(e, 4), At(e, 5), At(e, 6) >> = u
  /\ << At(e, 8), At(e, 9), At(e, 10) >> = f

\* C18: after setFromMatrix(m), slot 3*i + j of the stored matrix holds
\* m.elements[4*i + j] for i, j in 0..2 (as a single-precision value); the
\* renderer was handed that matrix, exactly once; and when the three
\* triples of m are (f x u, u, f), the stored matrix is the one
\* setOrientation(f, u) stores.
C18_FromMatrixFillsRotationBlock ==
  lastCall.op = "setListenerFromMatrix"
  => LET e == lastCall.args
     IN /\ \A i, j \in 0..2 :
             At(tempMatrix4, 3 * i + j) = Fround(At(e, 4 * i + j))
        /\ Len(PushEvents) = 1
        /\ PushEvents[1].renderer = tempMatrix4
        /\ renderer.matrix = tempMatrix4
        /\ \A fu \in Orientations :
             HoldsOrientation(e, fu[1], fu[2])
             => tempMatrix4
                  = OrientationMatrix(Float32Array(16), fu[1], fu[2])

\* C18 witness: the listener was set from the matrix holding the triples of
\* f = (1,1,0), u = (0,1,0), and stores what setOrientation(f, u) stores.
C18_Witness ==
  /\ lastCall.op = "setListenerFromMatrix"
  /\ HoldsOrientation(lastCall.args, <<1, 1, 0>>, <<0, 1, 0>>)
  /\ << <<1, 1, 0>>, <<0, 1, 0>> >> \in Orientations
  /\ tempMatrix4 = OrientationMatrix(Float32Array(16), <<1, 1, 0>>, <<0, 1, 0>>)

\* C19 as stated: a scene operation that starts with Listener.position
\* equal to the room's listener position ends with the two equal; after
\* setListenerPosition(x, y, z) both are (x, y, z), and after
\* setListenerFromMatrix(m) both are the translation of m.
C19_PositionCopiesAgreeExactly ==
  /\ [][pc = "ready" /\ position = room.listenerPosition
          => position' = room'.listenerPosition]_vars
  /\ [](lastCall.op = "setListenerPosition"
          => /\ position = lastCall.args
             /\ room.listenerPosition = lastCall.args)
  /\ [](lastCall.op = "setListenerFromMatrix"
          => /\ position = Translation(lastCall.args)
             /\ room.listenerPosition = Translation(lastCall.args))

\* C19: the two copies agree up to single precision.  A scene operation
\* that starts with Listener.position equal to the room's listener position
\* rounded to single precision ends that way; after setListenerPosition(x,
\* y, z) the room holds (x, y, z) and the listener its rounding; after
\* setListenerFromMatrix(m) both hold the rounded translation of m.
C19_PositionCopiesAgreeRounded ==
  /\ [][pc = "ready" /\ position = Round3(room.listenerPosition)
          => position' = Round3(room'.listenerPosition)]_vars
  /\ [](lastCall.op = "setListenerPosition"
          => /\ position = Round3(lastCall.args)
             /\ room.listenerPosition = lastCall.args)
  /\ [](lastCall.op = "setListenerFromMatrix"
          => /\ position = Round3(Translation(lastCall.args))
             /\ room.listenerPosition = position)

\* C19 witness: setListenerPosition was given coordinates single precision
\* cannot hold: the room has them, the listener has their rounding.
C19_Witness ==
  /\ lastCall.op = "setListenerPosition"
  /\ lastCall.args = <<BigOdd, 0, 0 - BigOdd>>
  /\ room.listenerPosition = lastCall.args
  /\ position = <<F32Exact, 0, 0 - F32Exact>>

\* Construction is over: the Listener constructor has handed the renderer
\* its initial matrix and the Songbird constructor has made its three
\* connections and returned.
Constructed ==
  /\ pc = "ready"
  /\ renderer.matrix # Undefined
  /\ SceneConnections \subseteq connections

\* C20: the step that makes the listener-renderer connections is taken only
\* when construction is over, and whenever one of those connections exists
\* construction is over -- also when the renderer finished initializing
\* while the constructors were still running.
C20_ContinuationAfterConstruction ==
  /\ [][BackendMade' # BackendMade => Constructed /\ Constructed']_vars
  /\ [](BackendMade # {} => Constructed)
  /\ [](pc # "ready" => BackendMade = {})

\* C20 witness: the continuation ran right after the constructor returned;
\* all six connections exist and the renderer holds the initial orientation.
C20_Witness ==
  /\ lastCall.op = "Songbird"
  /\ initState = "done"
  /\ connections = SceneConnections \union BackendConnections
  /\ log[Len(log)].kind = "connect"
  /\ lastRotation.early
  /\ renderer.matrix = Buffer16(RequestedRotation)

\* C21: setListenerOrientation makes one call, handing the renderer the new
\* rotation matrix, and no source update; the step changes nothing but the
\* stored matrix and the matrix the renderer holds: Listener.position, the
\* room (its reference point, dimensions and materials) and the source
\* collection are as they were.
C21_SetListenerOrientationFrame ==
  /\ [](lastCall.op = "setListenerOrientation"
          => /\ Len(log) = 1
             /\ log[1].kind = "renderer.setRotationMatrix"
             /\ log[1].renderer = renderer.matrix
             /\ UpdateEvents = <<>>)
  /\ [][lastCall'.op = "setListenerOrientation"
          => /\ position' = position
             /\ room' = room
             /\ sources' = sources
             /\ renderer'.ambisonicOrder = renderer.ambisonicOrder
             /\ renderer'.HRIRUrl = renderer.HRIRUrl]_vars

\* C21 witness: with two sources, a moved listener and changed room
\* dimensions, setListenerOrientation replaced the matrix the renderer held.
C21_Witness ==
  /\ lastCall.op = "setListenerOrientation"
  /\ lastCall.args = << <<0, 0, 1>>, <<1, 0, 0>> >>
  /\ Len(sources) = 2
  /\ position = <<3, 4, 5>>
  /\ room.listenerPosition = <<3, 4, 5>>
  /\ room.dimensions = <<2, 3, 4>>
  /\ SubSeq(renderer.matrix, 1, 9) = <<0, 1, 0, 1, 0, 0, 0, 0, 1>>

====
